---- MODULE Spec2Model ----
(***************************************************************************)
(* WordGrinder display backends: src/c/arch/sdl/dpy.c (SDL2) and            *)
(* src/c/arch/glfw/main.c (GLFW).  The program is linked with exactly one   *)
(* of the two; `backend` records which.  The model covers the statics of    *)
(* both files, the drawing operations, and the blocking event pump          *)
(* dpy_getchar together with the native event queue and clock it waits on.  *)
(***************************************************************************)
EXTENDS Integers, Sequences, FiniteSets, TLC

(* ------------------------------------------------------------------ *)
(* Bounds of the model                                                 *)
(* ------------------------------------------------------------------ *)

\* The clock stops advancing after MaxTime seconds.
MaxTime == 5
\* The native event queue holds at most MaxQueue undelivered events.
MaxQueue == 1

(* ------------------------------------------------------------------ *)
(* Program constants                                                   *)
(* ------------------------------------------------------------------ *)

VKM_SHIFT == 65536
VKM_CTRL == 131072
VKM_CTRLASCII == 262144
VK_RESIZE == 524288
VK_TIMEOUT == 524289
VK_QUIT == 524290
INT_MAX == 2147483647

\* SDL key symbols used by dpy_getkeyname's table and delivered in key events.
SDLK_LEFT == 1073741904
SDLK_DELETE == 127

\* SDL_CreateWindow(..., 640, 480, ...): the render target in pixels.
WindowPixelWidth == 640
WindowPixelHeight == 480
\* FC_Draw(font, renderer, x*8, y*8, buffer): pixels per cell step.
CellPixels == 8
\* dpy_start: screenwidth = 80; screenheight = 25.
SdlScreenWidth == 80
SdlScreenHeight == 25

(* ------------------------------------------------------------------ *)
(* C integer operators on two's-complement values                      *)
(* ------------------------------------------------------------------ *)

RECURSIVE BitAnd(_, _)
\* C's `a & b` on ints (two's complement, sign extended).
BitAnd(a, b) ==
    IF a = 0 \/ b = 0 THEN 0
    ELSE IF a = -1 THEN b
    ELSE IF b = -1 THEN a
    ELSE ((a % 2) * (b % 2)) + 2 * BitAnd(a \div 2, b \div 2)

RECURSIVE BitOr(_, _)
\* C's `a | b` on ints (two's complement, sign extended).
BitOr(a, b) ==
    IF a = 0 THEN b
    ELSE IF b = 0 THEN a
    ELSE IF a = -1 \/ b = -1 THEN -1
    ELSE (IF (a % 2) + (b % 2) > 0 THEN 1 ELSE 0) + 2 * BitOr(a \div 2, b \div 2)

\* toupper() in the C locale.
ToUpper(k) == IF k >= 97 /\ k <= 122 THEN k - 32 ELSE k

(* ------------------------------------------------------------------ *)
(* UTF-8 helpers (readu8 / writeu8 of the repository's utils)          *)
(* ------------------------------------------------------------------ *)

\* readu8(&p): the first codepoint of a NUL-terminated UTF-8 string; the
\* terminator itself decodes to 0.
Readu8(text) ==
    IF Len(text) = 0 THEN 0
    ELSE IF text[1] < 128 THEN text[1]
    ELSE IF text[1] >= 192 /\ text[1] < 224 /\ Len(text) >= 2
         THEN (text[1] % 32) * 64 + (text[2] % 64)
    ELSE 65533

\* writeu8(&p, c) followed by *p = '\0': the C string handed to FC_Draw.
\* A codepoint 0 writes a NUL first, so the string is empty.
Writeu8(c) ==
    IF c = 0 THEN << >>
    ELSE IF c < 128 THEN << c >>
    ELSE << 192 + (c \div 64), 128 + (c % 64) >>

(* ------------------------------------------------------------------ *)
(* State                                                               *)
(* ------------------------------------------------------------------ *)

VARIABLES
    backend,        \* "sdl" or "glfw": which file is linked in
    lifecycle,      \* "init" (before dpy_start), "running", "down"
    screenWidth,    \* static int screenwidth / screenWidth
    screenHeight,   \* static int screenheight / screenHeight
    currentAttr,    \* glfw: static int currentAttr (sdl has no register)
    attrBefore,     \* currentAttr as the last dpy_setattr call found it
    screen,         \* glfw: static struct cell* screen; NullPtr or the cell array
    cursorx,
    cursory,
    cursorShown,
    target,         \* sdl: glyphs drawn on the renderer's back buffer
    shown,          \* what the last dpy_sync presented on the window
    sizeOut,        \* the (*x, *y) last stored by dpy_getscreensize
    lastOp,         \* the drawing call made last, with its arguments
    now,            \* the native clock, in seconds since start
    queue,          \* native events not yet delivered
    pc,             \* dpy_getchar: "idle", "loop" (top of for(;;)), "wait"
    timeout,        \* dpy_getchar's argument, in seconds
    expiry,         \* sdl: expiry_ms; glfw: endTime
    waitStart,      \* clock value when the native wait began
    waitBudget,     \* the timeout handed to the native wait (-1: none)
    returned,       \* TRUE once the current dpy_getchar call has returned
    ret,            \* its return value
    lastEv,         \* the event delivered last during the current call
    relevantSeen,   \* a text/key/close/resize event was delivered in this call
    entryTime,      \* clock value when the current call was entered
    returnTime,     \* clock value when it returned
    keyArg,         \* the code last handed to dpy_getkeyname
    keyName         \* the string it returned

screenVars == << screenWidth, screenHeight, currentAttr, attrBefore, screen, cursorx,
                 cursory, cursorShown, target, shown, sizeOut, lastOp >>
pumpVars == << now, queue, pc, timeout, expiry, waitStart, waitBudget,
               returned, ret, lastEv, relevantSeen, entryTime,
               returnTime >>
keyVars == << keyArg, keyName >>
vars == << backend, lifecycle, screenVars, pumpVars, keyVars >>

\* The null pointer held by `screen` until something allocates the array.
NullPtr == << >>

NoOp == [op |-> "none", args |-> << >>]
NoEvent == [type |-> "none", sym |-> 0, shift |-> FALSE, ctrl |-> FALSE,
            text |-> << >>]

Init ==
    /\ backend \in {"sdl", "glfw"}
    /\ lifecycle = "init"
    /\ screenWidth = 0
    /\ screenHeight = 0
    /\ currentAttr = 0
    /\ attrBefore = 0
    /\ screen = NullPtr
    /\ cursorx = 0
    /\ cursory = 0
    /\ cursorShown = FALSE
    /\ target = {}
    /\ shown = {}
    /\ sizeOut = << 0, 0 >>
    /\ lastOp = NoOp
    /\ now = 0
    /\ queue = << >>
    /\ pc = "idle"
    /\ timeout = 0
    /\ expiry = 0
    /\ waitStart = 0
    /\ waitBudget = 0
    /\ returned = FALSE
    /\ ret = 0
    /\ lastEv = NoEvent
    /\ relevantSeen = FALSE
    /\ entryTime = 0
    /\ returnTime = 0
    /\ keyArg = 0
    /\ keyName = ""

(* ------------------------------------------------------------------ *)
(* Inputs drawn by the caller                                          *)
(* ------------------------------------------------------------------ *)

\* Cell coordinates: below 0, inside 80x25, on the last column/row, past the
\* 80x25 grid but inside the 640x480 window (y = 30), and past the window.
Xs == {-1, 5, 80}
Ys == {-1, 5, 24, 30}
\* 'X'.
Chars == {88}
AndMasks == {-1, -2, -3, 0}
OrMasks == {0, 1, 2, 3}
\* Rectangles handed to dpy_cleararea.
Rects == { << 0, 0, 79, 24 >>, << 5, 5, 5, 5 >>, << -1, 5, 80, 5 >> }

(* ------------------------------------------------------------------ *)
(* Lifecycle                                                           *)
(* ------------------------------------------------------------------ *)

\* dpy_start.  sdl: creates window, renderer and font, then sets the grid
\* size and the cursor.  glfw: creates the window and registers the two
\* callbacks; it assigns none of the statics.
DpyStart ==
    /\ lifecycle = "init"
    /\ lifecycle' = "running"
    /\ IF backend = "sdl"
       THEN /\ screenWidth' = SdlScreenWidth
            /\ screenHeight' = SdlScreenHeight
            /\ cursorx' = 0
            /\ cursory' = 0
            /\ cursorShown' = FALSE
       ELSE UNCHANGED << screenWidth, screenHeight, cursorx, cursory,
                         cursorShown >>
    /\ lastOp' = [op |-> "start", args |-> << >>]
    /\ UNCHANGED << backend, currentAttr, attrBefore, screen, target, shown, sizeOut,
                    pumpVars, keyVars >>

\* dpy_shutdown: destroys the window and quits the library.
DpyShutdown ==
    /\ lifecycle = "running"
    /\ pc = "idle"
    /\ lifecycle' = "down"
    /\ lastOp' = [op |-> "shutdown", args |-> << >>]
    /\ UNCHANGED << backend, screenWidth, screenHeight, currentAttr, attrBefore, screen,
                    cursorx, cursory, cursorShown, target, shown, sizeOut,
                    pumpVars, keyVars >>

\* The caller is between two calls of a started backend.
Callable == lifecycle = "running" /\ pc = "idle"

(* ------------------------------------------------------------------ *)
(* Drawing operations                                                  *)
(* ------------------------------------------------------------------ *)

\* FC_Draw(font, renderer, px, py, text): blends the glyphs of `text` onto the
\* back buffer at pixel (px, py).  Nothing is erased first; an empty string
\* and an origin outside the 640x480 render target leave it as it was.
FcDraw(tgt, px, py, text) ==
    IF text = << >> THEN tgt
    ELSE IF px < 0 \/ px >= WindowPixelWidth THEN tgt
    ELSE IF py < 0 \/ py >= WindowPixelHeight THEN tgt
    ELSE tgt \cup { [px |-> px, py |-> py, text |-> text] }

\* sdl dpy_writechar: encodes c and draws it at (x*8, y*8); x and y are not
\* compared with screenwidth / screenheight.
SdlWritechar(tgt, x, y, c) ==
    FcDraw(tgt, x * CellPixels, y * CellPixels, Writeu8(c))

\* glfw dpy_writechar: returns when there is no buffer or the coordinates are
\* outside it, else stores {c, (uint8_t) currentAttr} at x + y*screenWidth.
GlfwWritechar(scr, x, y, c) ==
    IF scr = NullPtr THEN scr
    ELSE IF (x < 0) \/ (x >= screenWidth) THEN scr
    ELSE IF (y < 0) \/ (y >= screenHeight) THEN scr
    ELSE [scr EXCEPT ![x + y * screenWidth] =
              [c |-> c, attr |-> currentAttr % 256]]

\* glfw dpy_cleararea: returns when there is no buffer; else, for each row
\* y1..y2, starts at &screen[y*screenWidth + x1] and stores a space with the
\* current attribute into x2-x1+1 consecutive cells.  x and y are not clipped.
GlfwCleararea(scr, x1, y1, x2, y2) ==
    IF scr = NullPtr THEN scr
    ELSE LET touched == { y * screenWidth + x : y \in y1..y2, x \in x1..x2 }
         IN  [i \in DOMAIN scr |->
                 IF i \in touched
                 THEN [c |-> 32, attr |-> currentAttr % 256]
                 ELSE scr[i]]

\* dpy_writechar(x, y, c).
DpyWritechar(x, y, c) ==
    /\ Callable
    /\ IF backend = "sdl"
       THEN /\ target' = SdlWritechar(target, x, y, c)
            /\ UNCHANGED screen
       ELSE /\ screen' = GlfwWritechar(screen, x, y, c)
            /\ UNCHANGED target
    /\ lastOp' = [op |-> "writechar", args |-> << x, y, c >>]
    /\ UNCHANGED << backend, lifecycle, screenWidth, screenHeight, currentAttr, attrBefore,
                    cursorx, cursory, cursorShown, shown, sizeOut, pumpVars, keyVars >>

\* A clear-area that empties the whole back buffer, as SDL_RenderClear does.
SdlClearareaRenderClear(tgt, x1, y1, x2, y2) == {}

\* sdl dpy_cleararea: the function body is empty, so the back buffer stays.
SdlCleararea(tgt, x1, y1, x2, y2) == tgt

\* dpy_cleararea(x1, y1, x2, y2).
DpyCleararea(x1, y1, x2, y2) ==
    /\ Callable
    /\ IF backend = "sdl"
       THEN /\ target' = SdlCleararea(target, x1, y1, x2, y2)
            /\ UNCHANGED screen
       ELSE /\ screen' = GlfwCleararea(screen, x1, y1, x2, y2)
            /\ UNCHANGED target
    /\ lastOp' = [op |-> "cleararea", args |-> << x1, y1, x2, y2 >>]
    /\ UNCHANGED << backend, lifecycle, screenWidth, screenHeight, currentAttr, attrBefore,
                    cursorx, cursory, cursorShown, shown, sizeOut, pumpVars, keyVars >>

\* dpy_clearscreen.  sdl: SDL_RenderClear empties the back buffer.  glfw:
\* dpy_cleararea(0, 0, screenWidth - 1, screenHeight - 1).
DpyClearscreen ==
    /\ Callable
    /\ IF backend = "sdl"
       THEN /\ target' = {}
            /\ UNCHANGED screen
       ELSE /\ screen' = GlfwCleararea(screen, 0, 0, screenWidth - 1,
                                       screenHeight - 1)
            /\ UNCHANGED target
    /\ lastOp' = [op |-> "clearscreen", args |-> << >>]
    /\ UNCHANGED << backend, lifecycle, screenWidth, screenHeight, currentAttr, attrBefore,
                    cursorx, cursory, cursorShown, shown, sizeOut, pumpVars, keyVars >>

\* dpy_getscreensize(&x, &y).
DpyGetscreensize ==
    /\ Callable
    /\ sizeOut' = << screenWidth, screenHeight >>
    /\ lastOp' = [op |-> "getscreensize", args |-> << >>]
    /\ UNCHANGED << backend, lifecycle, screenWidth, screenHeight, currentAttr, attrBefore,
                    screen, cursorx, cursory, cursorShown, target, shown,
                    pumpVars, keyVars >>

\* dpy_sync.  sdl: SDL_RenderPresent shows the back buffer; afterwards the
\* back buffer's content is unspecified (kept, the previous frame, or blank).
\* glfw: glfwSwapBuffers only; the cell array is not walked and nothing was
\* drawn, so the window shows no glyph.
DpySync ==
    /\ Callable
    /\ IF backend = "sdl"
       THEN /\ shown' = target
            /\ target' \in {target, shown, {}}
       ELSE /\ shown' = {}
            /\ UNCHANGED target
    /\ lastOp' = [op |-> "sync", args |-> << >>]
    /\ UNCHANGED << backend, lifecycle, screenWidth, screenHeight, currentAttr, attrBefore,
                    screen, cursorx, cursory, cursorShown, sizeOut, pumpVars, keyVars >>

\* dpy_setcursor(x, y, shown).
DpySetcursor(x, y, s) ==
    /\ Callable
    /\ cursorx' = x
    /\ cursory' = y
    /\ cursorShown' = s
    /\ lastOp' = [op |-> "setcursor", args |-> << x, y, IF s THEN 1 ELSE 0 >>]
    /\ UNCHANGED << backend, lifecycle, screenWidth, screenHeight, currentAttr, attrBefore,
                    screen, target, shown, sizeOut, pumpVars, keyVars >>

\* The two assignments of dpy_setattr in the other order.
GlfwSetattrOrFirst(attr, andmask, ormask) == BitAnd(BitOr(attr, ormask), andmask)

\* glfw dpy_setattr: currentAttr &= andmask; currentAttr |= ormask.
GlfwSetattr(attr, andmask, ormask) == BitOr(BitAnd(attr, andmask), ormask)

\* dpy_setattr(andmask, ormask).  The sdl function has an empty body.
DpySetattr(andmask, ormask) ==
    /\ Callable
    /\ IF backend = "sdl"
       THEN UNCHANGED currentAttr
       ELSE currentAttr' = GlfwSetattr(currentAttr, andmask, ormask)
    /\ attrBefore' = currentAttr
    /\ lastOp' = [op |-> "setattr", args |-> << andmask, ormask >>]
    /\ UNCHANGED << backend, lifecycle, screenWidth, screenHeight, screen,
                    cursorx, cursory, cursorShown, target, shown, sizeOut,
                    pumpVars, keyVars >>

NextScreen ==
    \/ DpyStart
    \/ DpyShutdown
    \/ \E x \in Xs, y \in Ys, c \in Chars : DpyWritechar(x, y, c)
    \/ \E r \in Rects : DpyCleararea(r[1], r[2], r[3], r[4])
    \/ DpyClearscreen
    \/ DpyGetscreensize
    \/ DpySync
    \/ \E x \in {0, 5}, s \in BOOLEAN : DpySetcursor(x, x, s)
    \/ \E a \in AndMasks, o \in OrMasks : DpySetattr(a, o)

SpecScreen == Init /\ [][NextScreen]_vars

(* ------------------------------------------------------------------ *)
(* Native events and the clock                                         *)
(* ------------------------------------------------------------------ *)

\* Key symbols delivered in key-down events: Left-Arrow, Delete, 'a', 'Z', ' '.
KeySyms == {SDLK_LEFT, SDLK_DELETE, 97, 90, 32}
\* Texts of text-input events: "X", "" and the two-byte encoding of U+00E9.
Texts == { << 88 >>, << >>, << 195, 169 >> }
\* dpy_getchar's argument: no timeout, zero, one second.
Timeouts == {-1, 0, 1}

KeyEvent(sym, shift, ctrl) ==
    [type |-> "keydown", sym |-> sym, shift |-> shift, ctrl |-> ctrl,
     text |-> << >>]
TextEvent(text) ==
    [type |-> "text", sym |-> 0, shift |-> FALSE, ctrl |-> FALSE, text |-> text]
PlainEvent(type) ==
    [type |-> type, sym |-> 0, shift |-> FALSE, ctrl |-> FALSE, text |-> << >>]

\* What the window system can deliver: window close, window resize, an event
\* of no interest to input (expose, mouse motion), text input, key down.
Events ==
    { PlainEvent(t) : t \in {"quit", "resize", "other"} }
    \cup { TextEvent(t) : t \in Texts }
    \cup { KeyEvent(k, s, c) : k \in KeySyms, s \in BOOLEAN, c \in BOOLEAN }

Relevant(e) == e.type \in {"quit", "resize", "text", "keydown"}

\* Time passes while the caller is between calls or blocked in a native wait
\* that has neither an event to deliver nor an elapsed timeout.
WaitElapsed ==
    /\ waitBudget # -1
    /\ IF backend = "sdl"
       THEN (now - waitStart) * 1000 >= waitBudget
       ELSE now - waitStart >= waitBudget

Tick ==
    /\ lifecycle = "running"
    /\ now < MaxTime
    /\ \/ pc = "idle"
       \/ pc = "wait" /\ queue = << >> /\ ~WaitElapsed
    /\ now' = now + 1
    /\ UNCHANGED << backend, lifecycle, screenVars, keyVars, queue, pc, timeout, expiry,
                    waitStart, waitBudget, returned, ret, lastEv, relevantSeen,
                    entryTime, returnTime >>

\* The window system queues an event.
Inject(e) ==
    /\ lifecycle = "running"
    /\ Len(queue) < MaxQueue
    /\ queue' = Append(queue, e)
    /\ UNCHANGED << backend, lifecycle, screenVars, keyVars, now, pc, timeout, expiry,
                    waitStart, waitBudget, returned, ret, lastEv, relevantSeen,
                    entryTime, returnTime >>

(* ------------------------------------------------------------------ *)
(* sdl dpy_getchar                                                     *)
(* ------------------------------------------------------------------ *)

Consumed == [returns |-> FALSE, value |-> 0]
Return(v) == [returns |-> TRUE, value |-> v]

\* check_shift: if (mod & KMOD_SHIFT) key |= VKM_SHIFT; key = -key; return key.
CheckShift(key, shift) ==
    Return(-(IF shift THEN BitOr(key, VKM_SHIFT) ELSE key))

\* case SDL_KEYDOWN without the `break` of the printable range: every key
\* falls through to the modifier encoding.
SdlKeydownReturnsPrintable(sym, shift, ctrl) ==
    IF (sym >= 32) /\ (sym < 128) /\ ctrl
    THEN LET key == ToUpper(sym)
         IN  IF key = 32
             THEN CheckShift(-(BitOr(VKM_CTRLASCII, 0)), shift)
             ELSE IF (key >= 65) /\ (key <= 90)
             THEN CheckShift(BitOr(BitAnd(key, 31), VKM_CTRLASCII), shift)
             ELSE CheckShift(BitOr(sym, VKM_CTRL), shift)
    ELSE CheckShift(IF ctrl THEN BitOr(sym, VKM_CTRL) ELSE sym, shift)

\* case SDL_KEYDOWN with the letter itself kept under the flag.
SdlKeydownKeepsLetter(sym, shift, ctrl) ==
    IF (sym >= 32) /\ (sym < 128)
    THEN IF ctrl
         THEN LET key == ToUpper(sym)
              IN  IF key = 32
                  THEN CheckShift(-(BitOr(VKM_CTRLASCII, 0)), shift)
                  ELSE IF (key >= 65) /\ (key <= 90)
                  THEN CheckShift(BitOr(key, VKM_CTRLASCII), shift)
                  ELSE Consumed
         ELSE Consumed
    ELSE CheckShift(IF ctrl THEN BitOr(sym, VKM_CTRL) ELSE sym, shift)

\* case SDL_KEYDOWN.
SdlKeydown(sym, shift, ctrl) ==
    IF (sym >= 32) /\ (sym < 128)
    THEN IF ctrl
         THEN LET key == ToUpper(sym)
              IN  IF key = 32
                  THEN CheckShift(-(BitOr(VKM_CTRLASCII, 0)), shift)
                  ELSE IF (key >= 65) /\ (key <= 90)
                  THEN CheckShift(BitOr(BitAnd(key, 31), VKM_CTRLASCII), shift)
                  ELSE Consumed
         ELSE Consumed
    ELSE CheckShift(IF ctrl THEN BitOr(sym, VKM_CTRL) ELSE sym, shift)

\* switch (e.type): SDL_QUIT breaks, SDL_TEXTINPUT returns a non-zero first
\* codepoint, SDL_KEYDOWN is translated, every other type has no case.
SdlDispatch(e) ==
    CASE e.type = "quit" -> Consumed
      [] e.type = "text" ->
            LET key == Readu8(e.text)
            IN  IF key = 0 THEN Consumed ELSE Return(key)
      [] e.type = "keydown" -> SdlKeydown(e.sym, e.shift, e.ctrl)
      [] OTHER -> Consumed

\* int expiry_ms = SDL_GetTicks() + timeout*1000.0;
\* if (timeout == -1) expiry_ms = INT_MAX;
SdlExpiry(ticks, t) == IF t = -1 THEN INT_MAX ELSE ticks + t * 1000

\* glfw: double endTime = glfwGetTime() + timeout;
GlfwEndTime(time, t) == time + t

\* dpy_getchar(t) is entered.
GetcharEnter(t) ==
    /\ Callable
    /\ timeout' = t
    /\ entryTime' = now
    /\ expiry' = IF backend = "sdl" THEN SdlExpiry(now * 1000, t)
                                    ELSE GlfwEndTime(now, t)
    /\ pc' = "loop"
    /\ returned' = FALSE
    /\ ret' = 0
    /\ lastEv' = NoEvent
    /\ relevantSeen' = FALSE
    /\ UNCHANGED << backend, lifecycle, screenVars, keyVars, now, queue, waitStart,
                    waitBudget, returnTime >>

\* sdl, top of for(;;): now_ms = SDL_GetTicks(); if (now_ms >= expiry_ms)
\* return 0; else SDL_WaitEventTimeout(&e, expiry_ms - now_ms) begins.
SdlLoop ==
    /\ lifecycle = "running" /\ backend = "sdl" /\ pc = "loop"
    /\ LET now_ms == now * 1000
       IN  IF now_ms >= expiry
           THEN /\ pc' = "idle"
                /\ returned' = TRUE
                /\ ret' = 0
                /\ returnTime' = now
                /\ UNCHANGED << waitStart, waitBudget >>
           ELSE /\ pc' = "wait"
                /\ waitStart' = now
                /\ waitBudget' = expiry - now_ms
                /\ UNCHANGED << returned, ret, returnTime >>
    /\ UNCHANGED << backend, lifecycle, screenVars, keyVars, now, queue, timeout,
                    expiry, lastEv, relevantSeen, entryTime >>

\* sdl: SDL_WaitEventTimeout returns 1 with the first queued event, which the
\* switch handles, or 0 once its timeout has elapsed.
SdlWait ==
    /\ lifecycle = "running" /\ backend = "sdl" /\ pc = "wait"
    /\ IF queue # << >>
       THEN LET e == Head(queue)
                r == SdlDispatch(e)
            IN  /\ queue' = Tail(queue)
                /\ lastEv' = e
                /\ relevantSeen' = (relevantSeen \/ Relevant(e))
                /\ IF r.returns
                   THEN /\ pc' = "idle"
                        /\ returned' = TRUE
                        /\ ret' = r.value
                        /\ returnTime' = now
                   ELSE /\ pc' = "loop"
                        /\ UNCHANGED << returned, ret, returnTime >>
       ELSE /\ WaitElapsed
            /\ pc' = "loop"
            /\ UNCHANGED << queue, lastEv, relevantSeen, returned, ret,
                            returnTime >>
    /\ UNCHANGED << backend, lifecycle, screenVars, keyVars, now, timeout, expiry,
                    waitStart, waitBudget, entryTime >>

(* ------------------------------------------------------------------ *)
(* glfw dpy_getchar                                                    *)
(* ------------------------------------------------------------------ *)

\* glfw, top of for(;;).  With timeout == -1 glfwWaitEvents() begins.
\* Otherwise waitTime = endTime - glfwGetTime(); a negative waitTime returns
\* -VK_TIMEOUT, and else glfwWaitEventsTimeout(endTime) begins: the wait is
\* given endTime, not waitTime.  The clock has sub-second resolution, so a
\* second reading within the same second as endTime may or may not be later.
GlfwLoop ==
    /\ lifecycle = "running" /\ backend = "glfw" /\ pc = "loop"
    /\ IF timeout = -1
       THEN /\ pc' = "wait"
            /\ waitStart' = now
            /\ waitBudget' = -1
            /\ UNCHANGED << returned, ret, returnTime >>
       ELSE \E later \in BOOLEAN :
            LET waitTimeNegative == (expiry - now < 0)
                                    \/ (expiry - now = 0 /\ later)
            IN  IF waitTimeNegative
                THEN /\ pc' = "idle"
                     /\ returned' = TRUE
                     /\ ret' = -VK_TIMEOUT
                     /\ returnTime' = now
                     /\ UNCHANGED << waitStart, waitBudget >>
                ELSE /\ pc' = "wait"
                     /\ waitStart' = now
                     /\ waitBudget' = expiry
                     /\ UNCHANGED << returned, ret, returnTime >>
    /\ UNCHANGED << backend, lifecycle, screenVars, keyVars, now, queue, timeout,
                    expiry, lastEv, relevantSeen, entryTime >>

\* glfw: the wait returns after the pending events were processed or its
\* timeout elapsed.  Processing runs key_cb / character_cb, which print their
\* arguments and store nothing; close and resize have no callback.
GlfwWait ==
    /\ lifecycle = "running" /\ backend = "glfw" /\ pc = "wait"
    /\ IF queue # << >>
       THEN /\ queue' = << >>
            /\ lastEv' = queue[Len(queue)]
            /\ relevantSeen' =
                   (relevantSeen \/ \E i \in 1..Len(queue) : Relevant(queue[i]))
       ELSE /\ WaitElapsed
            /\ UNCHANGED << queue, lastEv, relevantSeen >>
    /\ pc' = "loop"
    /\ UNCHANGED << backend, lifecycle, screenVars, keyVars, now, timeout, expiry,
                    waitStart, waitBudget, returned, ret, entryTime,
                    returnTime >>

NextPump ==
    \/ DpyStart
    \/ Tick
    \/ \E e \in Events : Inject(e)
    \/ \E t \in Timeouts : GetcharEnter(t)
    \/ SdlLoop
    \/ SdlWait
    \/ GlfwLoop
    \/ GlfwWait

SpecPump == Init /\ [][NextPump]_vars

Next == NextScreen \/ NextPump

Spec == Init /\ [][Next]_vars

(* ------------------------------------------------------------------ *)
(* Observations used by the properties                                 *)
(* ------------------------------------------------------------------ *)

\* Keys the encoding treats as non-printable among those delivered.
NonPrintableSyms == {SDLK_LEFT, SDLK_DELETE}

\* magnitude = base_key_code | modifier_bits, with SHIFT and CTRL as held.
Encoded(sym, shift, ctrl) ==
    BitOr(sym, BitOr(IF shift THEN VKM_SHIFT ELSE 0, IF ctrl THEN VKM_CTRL ELSE 0))

\* The texts drawn on the sdl back buffer `tgt` at cell (x, y).
CellGlyphs(tgt, x, y) ==
    { d.text : d \in { g \in tgt : g.px = x * CellPixels /\ g.py = y * CellPixels } }

\* Cell (x, y) holds codepoint c with attribute a: in the glfw cell array, or
\* as the one glyph drawn at that cell on an sdl surface `tgt` (which carries
\* no attribute).
CellHolds(scr, tgt, x, y, c, a) ==
    IF backend = "glfw"
    THEN /\ scr # NullPtr
         /\ (x + y * screenWidth) \in DOMAIN scr
         /\ scr[x + y * screenWidth] = [c |-> c, attr |-> a]
    ELSE CellGlyphs(tgt, x, y) = { Writeu8(c) }

\* Cell (x, y) shows as a blank.
CellBlank(scr, tgt, x, y, a) ==
    IF backend = "glfw"
    THEN /\ scr # NullPtr
         /\ (x + y * screenWidth) \in DOMAIN scr
         /\ scr[x + y * screenWidth] = [c |-> 32, attr |-> a]
    ELSE CellGlyphs(tgt, x, y) \subseteq { << 32 >> }

\* The grid of the start scenario: 80 columns by 25 rows.
InScenarioGrid(x, y) ==
    /\ 0 <= x /\ x < SdlScreenWidth
    /\ 0 <= y /\ y < SdlScreenHeight

\* (x, y) lies inside [0, width) x [0, height) as dpy_getscreensize reports it.
InBuffer(x, y) ==
    /\ 0 <= x /\ x < screenWidth
    /\ 0 <= y /\ y < screenHeight

(* ------------------------------------------------------------------ *)
(* Properties                                                          *)
(* ------------------------------------------------------------------ *)

\* C1: a dpy_getchar call with timeout >= 0 that returns without any relevant
\* event (text input, key down, window close, resize) having been delivered
\* returns the TIMEOUT sentinel -0x80001, not 0 or any other code.
C1_TimeoutReturnsSentinel ==
    (returned /\ timeout >= 0 /\ ~relevantSeen) => ret = -VK_TIMEOUT

\* C2: dpy_getchar(-1) never returns the TIMEOUT sentinel, and a key-down of a
\* non-printable key delivered to it makes it return the negative of the key's
\* base code OR'd with exactly the modifier flags held.
C2_NoTimeoutReturnsEncodedKey ==
    /\ (returned /\ timeout = -1) => ret # -VK_TIMEOUT
    /\ (timeout = -1 /\ lastEv.type = "keydown"
            /\ lastEv.sym \in NonPrintableSyms)
       => (returned /\ ret = -Encoded(lastEv.sym, lastEv.shift, lastEv.ctrl))

\* C3: every key-down delivered to dpy_getchar, whatever the key and the
\* modifiers, makes it return at once with a strictly negative value.
C3_KeyDownReturnsNegative ==
    lastEv.type = "keydown" => (returned /\ ret < 0)

\* C4: a window-close event delivered to a waiting dpy_getchar makes it
\* return the QUIT sentinel instead of being consumed.
C4_CloseReturnsQuit ==
    lastEv.type = "quit" => (returned /\ ret = -VK_QUIT)

\* C5: a window-resize event delivered to a waiting dpy_getchar makes it
\* return the RESIZE sentinel -0x80000.
C5_ResizeReturnsResize ==
    lastEv.type = "resize" => (returned /\ ret = -VK_RESIZE)

\* C6: a text-input event whose first codepoint is non-zero makes dpy_getchar
\* return that codepoint, a strictly positive value; one decoding to 0 is
\* consumed, and the call then returns no earlier than its original deadline.
C6_TextReturnsCodepoint ==
    /\ (lastEv.type = "text" /\ Readu8(lastEv.text) # 0)
       => (returned /\ ret = Readu8(lastEv.text) /\ ret > 0)
    /\ (lastEv.type = "text" /\ Readu8(lastEv.text) = 0 /\ returned)
       => (timeout >= 0 /\ returnTime >= entryTime + timeout)

\* C7: with no relevant event, dpy_getchar(t), t >= 0, returns no later than
\* its deadline (entry time + t) plus one tick of wait granularity, so
\* dpy_getchar(0) returns at once; irrelevant events do not postpone this.
C7_ReturnsByDeadline ==
    (returned /\ timeout >= 0 /\ ~relevantSeen)
    => returnTime <= entryTime + timeout + 1

\* C8: dpy_writechar with x outside [0, width) or y outside [0, height)
\* changes no cell of the screen, nor the attribute register, nor the cursor.
C8_OutOfBoundsWriteIsNoOp ==
    [][ (lastOp'.op = "writechar"
            /\ ~InBuffer(lastOp'.args[1], lastOp'.args[2]))
        => UNCHANGED << screen, target, currentAttr, cursorx, cursory,
                        cursorShown >> ]_vars

\* C9: after start, dpy_writechar(x, y, c) with (x, y) inside the 80x25 grid
\* sets cell (x, y) to {c, current attribute} and changes no other cell, and
\* the dpy_sync that follows presents that cell.
C9_InBoundsWriteSetsCell ==
    [][ /\ (lastOp'.op = "writechar"
              /\ InScenarioGrid(lastOp'.args[1], lastOp'.args[2]))
           => /\ CellHolds(screen', target', lastOp'.args[1], lastOp'.args[2],
                           lastOp'.args[3], currentAttr)
              /\ \A x \in 0..(SdlScreenWidth - 1), y \in 0..(SdlScreenHeight - 1) :
                    (<< x, y >> # << lastOp'.args[1], lastOp'.args[2] >>)
                    => /\ CellGlyphs(target', x, y) = CellGlyphs(target, x, y)
                       /\ (screen # NullPtr /\ (x + y * screenWidth) \in DOMAIN screen)
                          => screen'[x + y * screenWidth] = screen[x + y * screenWidth]
        /\ (lastOp'.op = "sync" /\ lastOp.op = "writechar"
              /\ InScenarioGrid(lastOp.args[1], lastOp.args[2]))
           => CellHolds(screen', shown', lastOp.args[1], lastOp.args[2],
                        lastOp.args[3], currentAttr)
      ]_vars

\* C10: dpy_cleararea on a rectangle x1 <= x2, y1 <= y2 lying wholly inside
\* the buffer leaves every cell of the rectangle a space with the current
\* attribute and changes no cell outside it.
C10_ClearAreaBlanksRectangle ==
    [][ (lastOp'.op = "cleararea"
            /\ lastOp'.args[1] <= lastOp'.args[3]
            /\ lastOp'.args[2] <= lastOp'.args[4]
            /\ InBuffer(lastOp'.args[1], lastOp'.args[2])
            /\ InBuffer(lastOp'.args[3], lastOp'.args[4]))
        => \A x \in 0..(screenWidth - 1), y \in 0..(screenHeight - 1) :
              IF /\ lastOp'.args[1] <= x /\ x <= lastOp'.args[3]
                 /\ lastOp'.args[2] <= y /\ y <= lastOp'.args[4]
              THEN CellBlank(screen', target', x, y, currentAttr % 256)
              ELSE /\ CellGlyphs(target', x, y) = CellGlyphs(target, x, y)
                   /\ (screen # NullPtr) => screen'[x + y * screenWidth]
                                            = screen[x + y * screenWidth]
      ]_vars

\* Cell (x, y) lies inside the rectangle r = (x1, y1, x2, y2) and the buffer.
InRectAndBuffer(r, x, y) ==
    /\ r[1] <= x /\ x <= r[3]
    /\ r[2] <= y /\ y <= r[4]
    /\ InBuffer(x, y)

SDLK_F1 == 1073741882
SDLK_F24 == 1073741939

Digits == << "0", "1", "2", "3", "4", "5", "6", "7", "8", "9" >>

RECURSIVE DecimalNat(_)
\* The decimal digits of n >= 0.
DecimalNat(n) ==
    IF n < 10 THEN Digits[n + 1]
    ELSE DecimalNat(n \div 10) \o Digits[(n % 10) + 1]

\* sprintf's %d.
Decimal(n) == IF n < 0 THEN "-" \o DecimalNat(-n) ELSE DecimalNat(n)

Letters == << "@", "A", "B", "C", "D", "E", "F", "G", "H", "I", "J", "K", "L",
              "M", "N", "O", "P", "Q", "R", "S", "T", "U", "V", "W", "X", "Y",
              "Z" >>

\* sprintf's %c: the byte (unsigned char) n.  '@' and 'A'..'Z' are written as
\* themselves, any other byte as its value between angle brackets.
Chr(n) ==
    LET b == n % 256
    IN  IF b >= 64 /\ b <= 90 THEN Letters[b - 63]
        ELSE "<" \o DecimalNat(b) \o ">"

\* The switch (key) of sdl dpy_getkeyname: key symbol and template, in the
\* order of the case labels (DOWN, UP, LEFT, RIGHT, HOME, END, BACKSPACE,
\* DELETE, INSERT, PAGEUP, PAGEDOWN, TAB, RETURN, ESCAPE).
SdlTemplates ==
    << [sym |-> 1073741905, name |-> "DOWN"],
       [sym |-> 1073741906, name |-> "UP"],
       [sym |-> SDLK_LEFT, name |-> "LEFT"],
       [sym |-> 1073741903, name |-> "RIGHT"],
       [sym |-> 1073741898, name |-> "HOME"],
       [sym |-> 1073741901, name |-> "END"],
       [sym |-> 8, name |-> "BACKSPACE"],
       [sym |-> SDLK_DELETE, name |-> "DELETE"],
       [sym |-> 1073741897, name |-> "INSERT"],
       [sym |-> 1073741899, name |-> "PGDN"],
       [sym |-> 1073741902, name |-> "PGUP"],
       [sym |-> 9, name |-> "TAB"],
       [sym |-> 13, name |-> "RETURN"],
       [sym |-> 27, name |-> "ESCAPE"] >>

\* The template of `key`, or "" for NULL.
SdlTemplate(key) ==
    IF \E i \in 1..Len(SdlTemplates) : SdlTemplates[i].sym = key
    THEN SdlTemplates[CHOOSE i \in 1..Len(SdlTemplates) :
                          SdlTemplates[i].sym = key].name
    ELSE ""

\* sdl: (mods & VKM_SHIFT) ? "S" : "" followed by (mods & VKM_CTRL) ? "C" : "".
SdlModPrefix(mods) ==
    (IF BitAnd(mods, VKM_SHIFT) # 0 THEN "S" ELSE "")
    \o (IF BitAnd(mods, VKM_CTRL) # 0 THEN "C" ELSE "")

\* sdl dpy_getkeyname(k).  0xfff0ffff is -983041 as an int.
SdlGetkeyname(k) ==
    IF -k = VK_RESIZE THEN "KEY_RESIZE"
    ELSE IF -k = VK_TIMEOUT THEN "KEY_TIMEOUT"
    ELSE
      LET mods == -k
          key == BitAnd(-k, -983041)
      IN  IF BitAnd(mods, VKM_CTRLASCII) # 0
          THEN "KEY_" \o (IF BitAnd(mods, VKM_SHIFT) # 0 THEN "S" ELSE "")
                      \o "^" \o Chr(key + 64)
          ELSE IF SdlTemplate(key) # ""
          THEN "KEY_" \o SdlModPrefix(mods) \o SdlTemplate(key)
          ELSE IF (key >= SDLK_F1) /\ (key <= SDLK_F24)
          THEN "KEY_" \o SdlModPrefix(mods) \o "F" \o Decimal(key - SDLK_F1 + 1)
          ELSE "KEY_UNKNOWN_" \o Decimal(-k)

\* glfw dpy_getkeyname(k): return "KEY_TIMEOUT"; the decoder is compiled out.
GlfwGetkeyname(k) == "KEY_TIMEOUT"

\* dpy_getkeyname(k) of the linked backend.
Getkeyname(k) ==
    IF backend = "sdl" THEN SdlGetkeyname(k) ELSE GlfwGetkeyname(k)

\* The caller asks for the name of code k.
DpyGetkeyname(k) ==
    /\ Callable
    /\ keyArg' = k
    /\ keyName' = Getkeyname(k)
    /\ UNCHANGED << backend, lifecycle, screenVars, pumpVars >>

\* The two modifier flags, in each combination.
ModCombos == { 0, VKM_SHIFT, VKM_CTRL, VKM_SHIFT + VKM_CTRL }

\* Codes handed to dpy_getkeyname: every table key, the menu key
\* (1073741942, absent from the switch) and two
\* function keys under each modifier combination; the three sentinels; Ctrl+A
\* and Ctrl+Z as control bytes, with and without SHIFT; what the sdl pump
\* returns for Ctrl+Space; text codepoints; zero; codes of no key.
KeyCodes ==
    { -BitOr(SdlTemplates[i].sym, m) : i \in 1..Len(SdlTemplates), m \in ModCombos }
    \cup { -BitOr(k, m) : k \in {1073741942, SDLK_F1, SDLK_F1 + 1}, m \in ModCombos }
    \cup { -VK_RESIZE, -VK_TIMEOUT, -VK_QUIT }
    \cup { -BitOr(BitOr(c, VKM_CTRLASCII), m) : c \in {1, 26}, m \in {0, VKM_SHIFT} }
    \cup { 262144, 196608, 88, 233, 0, -1, -1000, -BitOr(1000, VKM_SHIFT) }

NextKey ==
    \/ DpyStart
    \/ \E k \in KeyCodes : DpyGetkeyname(k)

SpecKey == Init /\ [][NextKey]_vars

(* ------------------------------------------------------------------ *)
(* Key names                                                           *)
(* ------------------------------------------------------------------ *)

\* dpy_getkeyname has been called at least once.
Named == keyName # ""

\* The shared symbolic table: each key's symbol and its own name.
SharedKeyTable ==
    << [sym |-> 1073741905, name |-> "DOWN"],
       [sym |-> 1073741906, name |-> "UP"],
       [sym |-> 1073741904, name |-> "LEFT"],
       [sym |-> 1073741903, name |-> "RIGHT"],
       [sym |-> 1073741898, name |-> "HOME"],
       [sym |-> 1073741901, name |-> "END"],
       [sym |-> 8, name |-> "BACKSPACE"],
       [sym |-> 127, name |-> "DELETE"],
       [sym |-> 1073741897, name |-> "INSERT"],
       [sym |-> 1073741899, name |-> "PGUP"],
       [sym |-> 1073741902, name |-> "PGDN"],
       [sym |-> 9, name |-> "TAB"],
       [sym |-> 13, name |-> "RETURN"],
       [sym |-> 27, name |-> "ESCAPE"],
       [sym |-> 1073741942, name |-> "MENU"] >>

\* "KEY_" + ("S" if SHIFT) + ("^" if CTRL) + name.
CanonicalName(name, m) ==
    "KEY_" \o (IF BitAnd(m, VKM_SHIFT) # 0 THEN "S" ELSE "")
           \o (IF BitAnd(m, VKM_CTRL) # 0 THEN "^" ELSE "")
           \o name

\* C12: for every key of the shared symbolic table and every combination of
\* SHIFT and CTRL, the name of -(base code | modifier flags) is "KEY_", then
\* "S" if SHIFT, then "^" if CTRL, then the key's own name.
C12_TableKeysDecodeToCanonicalNames ==
    \A i \in 1..Len(SharedKeyTable), m \in ModCombos :
        (Named /\ keyArg = -BitOr(SharedKeyTable[i].sym, m))
        => keyName = CanonicalName(SharedKeyTable[i].name, m)

\* C14: the name of the negative of each sentinel is its fixed name, whatever
\* bits the sentinel shares with modifier flags or table keys.
C14_SentinelsDecodeToFixedNames ==
    Named =>
        /\ keyArg = -VK_RESIZE => keyName = "KEY_RESIZE"
        /\ keyArg = -VK_TIMEOUT => keyName = "KEY_TIMEOUT"
        /\ keyArg = -VK_QUIT => keyName = "KEY_QUIT"

\* The code k is none of the sentinels, does not carry the flag
\* CTRL_AS_ASCII_CONTROL, and its key is neither in the shared table nor in
\* the function-key range.
Undecodable(k) ==
    LET key == BitAnd(-k, -983041)
    IN  /\ -k \notin {VK_RESIZE, VK_TIMEOUT, VK_QUIT}
        /\ BitAnd(-k, VKM_CTRLASCII) = 0
        /\ \A i \in 1..Len(SharedKeyTable) : SharedKeyTable[i].sym # key
        /\ ~(key >= SDLK_F1 /\ key <= SDLK_F24)

\* C15: dpy_getkeyname returns a name for every code, and for a code that is
\* no sentinel, carries no CTRL_AS_ASCII_CONTROL flag and is neither a table
\* key nor a function key the name is "KEY_UNKNOWN_" followed by the decimal
\* value of the negated code.
C15_UnknownCodesDecodeToDiagnostic ==
    (Named /\ Undecodable(keyArg))
    => keyName = "KEY_UNKNOWN_" \o Decimal(-keyArg)

(* ------------------------------------------------------------------ *)
(* Ctrl+letter                                                         *)
(* ------------------------------------------------------------------ *)

\* The event last delivered to dpy_getchar is a key-down of a letter, in either
\* case, with Ctrl held.
CtrlLetterDelivered ==
    /\ lastEv.type = "keydown"
    /\ lastEv.ctrl
    /\ ToUpper(lastEv.sym) >= 65 /\ ToUpper(lastEv.sym) <= 90

\* -(base | CTRL_AS_ASCII_CONTROL | SHIFT when held).
CtrlAsciiCode(base, shift) ==
    -BitOr(BitOr(base, VKM_CTRLASCII), IF shift THEN VKM_SHIFT ELSE 0)

\* "KEY_^L", or "KEY_S^L" with SHIFT, for the upper-case letter L of sym.
CtrlLetterName(sym, shift) ==
    "KEY_" \o (IF shift THEN "S" ELSE "") \o "^" \o Chr(ToUpper(sym))

\* C13 as stated: a key-down of a letter L with Ctrl held makes dpy_getchar
\* return the negative code that carries CTRL_AS_ASCII_CONTROL (and SHIFT when
\* held) over the letter L itself as base key code, and dpy_getkeyname of that
\* code is "KEY_^L" or "KEY_S^L".
C13_CtrlLetterKeepsLetterAsBase ==
    CtrlLetterDelivered
    => /\ returned
       /\ \E base \in {lastEv.sym, ToUpper(lastEv.sym)} :
               ret = CtrlAsciiCode(base, lastEv.shift)
       /\ Getkeyname(ret) = CtrlLetterName(lastEv.sym, lastEv.shift)

\* C13 amended: in the sdl backend a key-down of a letter L with Ctrl held
\* makes dpy_getchar return the negative code that carries
\* CTRL_AS_ASCII_CONTROL (and SHIFT when held) over the control byte L & 0x1f
\* as base key code, and dpy_getkeyname of that code is "KEY_^L" or "KEY_S^L".
C13_CtrlLetterStoresControlByte ==
    (backend = "sdl" /\ CtrlLetterDelivered)
    => /\ returned
       /\ ret = CtrlAsciiCode(BitAnd(ToUpper(lastEv.sym), 31), lastEv.shift)
       /\ SdlGetkeyname(ret) = CtrlLetterName(lastEv.sym, lastEv.shift)

\* Shift+Ctrl+a has been returned by the sdl dpy_getchar as -(1 | flags).
C13_Witness ==
    /\ backend = "sdl"
    /\ returned
    /\ lastEv = KeyEvent(97, TRUE, TRUE)
    /\ ret = -327681

(* ------------------------------------------------------------------ *)
(* The attribute register                                              *)
(* ------------------------------------------------------------------ *)

\* dpy_setattr(andmask, ormask) leaves (current & andmask) | ormask in the
\* register and touches neither a cell nor the cursor.
SetattrUpdatesRegisterOnly ==
    lastOp'.op = "setattr"
    => /\ currentAttr' = BitOr(BitAnd(currentAttr, lastOp'.args[1]), lastOp'.args[2])
       /\ UNCHANGED << screen, target, shown, cursorx, cursory, cursorShown,
                       screenWidth, screenHeight >>

\* A dpy_writechar inside the buffer stamps the register's value into its cell.
WriteStampsRegister ==
    (lastOp'.op = "writechar" /\ InBuffer(lastOp'.args[1], lastOp'.args[2]))
    => CellHolds(screen', target', lastOp'.args[1], lastOp'.args[2],
                 lastOp'.args[3], currentAttr)

\* C16: dpy_setattr(andmask, ormask) sets the attribute register to
\* (current & andmask) | ormask and changes nothing else, no cell's attribute
\* or codepoint included, and the writes that follow stamp the register's
\* value into the cells they write.
C16_SetattrUpdatesRegisterOnly ==
    [][ SetattrUpdatesRegisterOnly /\ WriteStampsRegister ]_vars

\* Two dpy_setattr calls in a row have just completed in the glfw backend: the
\* first with lastOp.args on the register value attrBefore, the second with
\* lastOp'.args.
TwoSetattrCalls ==
    /\ backend = "glfw"
    /\ lastOp.op = "setattr"
    /\ lastOp'.op = "setattr"

\* What one dpy_setattr call with the masks of the two calls pre-composed
\* (andmask1 & andmask2, ormask1 | ormask2) makes of the register value the
\* first call found.
PrecomposedCall ==
    GlfwSetattr(attrBefore, BitAnd(lastOp.args[1], lastOp'.args[1]),
                BitOr(lastOp.args[2], lastOp'.args[2]))

\* C17 as stated: two dpy_setattr calls in sequence leave the register as the
\* single call with the pre-composed masks does only when
\* ormask1 & andmask2 = 0.
C17_ComposesOnlyWhenOrMaskedOut ==
    [][ (TwoSetattrCalls /\ currentAttr' = PrecomposedCall)
        => BitAnd(lastOp.args[2], lastOp'.args[1]) = 0 ]_vars

\* Bits of ormask1 that the second call neither keeps nor sets again:
\* ormask1 & ~andmask2 & ~ormask2 (~m is -m - 1).
LostOrBits ==
    BitAnd(lastOp.args[2], BitAnd(-lastOp'.args[1] - 1, -lastOp'.args[2] - 1))

\* C17 amended: for every starting register value and all masks, two
\* dpy_setattr calls in sequence leave the register as the single call with
\* the pre-composed masks does exactly when ormask1 & ~andmask2 & ~ormask2 = 0,
\* and differ from it otherwise.
C17_ComposesIffOrBitsSurvive ==
    [][ TwoSetattrCalls
        => ((currentAttr' = PrecomposedCall) <=> (LostOrBits = 0)) ]_vars

\* A dpy_setattr call had set bit 0 of the register (it starts at 0 and only
\* dpy_setattr changes it), and dpy_setattr(-2, 0) has then cleared it.
C17_Witness ==
    /\ backend = "glfw"
    /\ lastOp = [op |-> "setattr", args |-> << -2, 0 >>]
    /\ attrBefore = 1
    /\ currentAttr = 0

(* ------------------------------------------------------------------ *)
(* Screen size                                                         *)
(* ------------------------------------------------------------------ *)

\* dpy_getscreensize reports the 80x25 grid of the start scenario.
ReportsScenarioGrid ==
    lastOp'.op = "getscreensize"
    => sizeOut' = << SdlScreenWidth, SdlScreenHeight >>

\* No step of a started backend changes the dimensions.
DimensionsFixed ==
    lifecycle = "running" => UNCHANGED << screenWidth, screenHeight >>

\* C18: after dpy_start, dpy_getscreensize returns the dimensions established
\* at start, 80x25 in the start scenario, and no later call (drawing, cursor,
\* attribute, sync, dpy_getchar with or without a resize event) changes them.
C18_ScreenSizeFixedAtStart ==
    [][ ReportsScenarioGrid /\ DimensionsFixed ]_vars

(* ------------------------------------------------------------------ *)
(* Clearing the screen                                                 *)
(* ------------------------------------------------------------------ *)

\* dpy_clearscreen leaves the cells as dpy_cleararea(0, 0, width - 1,
\* height - 1) would leave them from the same state, and register and cursor
\* as they were (dpy_cleararea changes neither).
ClearscreenIsFullCleararea ==
    lastOp'.op = "clearscreen"
    => /\ screen' = GlfwCleararea(screen, 0, 0, screenWidth - 1, screenHeight - 1)
       /\ target' = SdlCleararea(target, 0, 0, screenWidth - 1, screenHeight - 1)
       /\ UNCHANGED << currentAttr, cursorx, cursory, cursorShown >>

\* dpy_clearscreen leaves every cell a space with the current attribute.
ClearscreenBlanksEveryCell ==
    lastOp'.op = "clearscreen"
    => \A x \in 0..(screenWidth - 1), y \in 0..(screenHeight - 1) :
           CellBlank(screen', target', x, y, currentAttr % 256)

\* C19: in every state after dpy_start, dpy_clearscreen produces the same
\* buffer, attribute register and cursor state as dpy_cleararea(0, 0,
\* width - 1, height - 1): every cell becomes a space with the current
\* attribute.
C19_ClearscreenEqualsFullCleararea ==
    [][ ClearscreenIsFullCleararea /\ ClearscreenBlanksEveryCell ]_vars

(* ------------------------------------------------------------------ *)
(* Printable keys in the sdl pump                                      *)
(* ------------------------------------------------------------------ *)

\* e is a key-down of a printable ASCII key (0x20..0x7f) other than Ctrl+letter
\* and Ctrl+Space.
PrintableKeydown(e) ==
    /\ e.type = "keydown"
    /\ e.sym >= 32 /\ e.sym <= 127
    /\ ~(e.ctrl /\ (e.sym = 32 \/ (ToUpper(e.sym) >= 65 /\ ToUpper(e.sym) <= 90)))

\* This step of the sdl dpy_getchar takes the first queued event.
SdlTakesEvent == backend = "sdl" /\ Len(queue') < Len(queue)

\* C20: in the sdl pump a printable key-down that is neither Ctrl+letter nor
\* Ctrl+Space is consumed and dpy_getchar keeps waiting; the text-input event
\* of the keystroke returns its positive codepoint; and no return of
\* dpy_getchar stems from a printable key-down (a return either takes an event
\* that is not one, or is the timeout's 0), so that a keystroke delivered as
\* key-down then text-input yields one code, not two.
C20_PrintableKeydownConsumed ==
    [][ /\ (SdlTakesEvent /\ PrintableKeydown(Head(queue)))
           => (~returned' /\ pc' = "loop")
        /\ (SdlTakesEvent /\ Head(queue).type = "text"
               /\ Readu8(Head(queue).text) # 0)
           => (returned' /\ ret' = Readu8(Head(queue).text) /\ ret' > 0)
        /\ (backend = "sdl" /\ ~returned /\ returned')
           => \/ SdlTakesEvent /\ ~PrintableKeydown(Head(queue))
              \/ ret' = 0
      ]_vars

\* The sdl dpy_getchar has consumed the key-down of 'a' without returning and
\* the keystroke's text-input event is queued behind it.
C20_Witness ==
    /\ backend = "sdl"
    /\ pc = "loop"
    /\ ~returned
    /\ lastEv = KeyEvent(97, FALSE, FALSE)
    /\ queue = << TextEvent(<< 88 >>) >>

====
